---------------------------- MODULE Spec2Model ----------------------------
(***************************************************************************)
(* The useGPS hook of Boat-App (hooks/useGPS.ts, latest revision) as a     *)
(* state machine: React state and refs of one hook instance, the platform  *)
(* objects it talks to (navigator.geolocation, navigator.permissions, the  *)
(* timer), and the asynchronous calls that are in flight.                  *)
(*                                                                         *)
(* JavaScript runs every callback to completion, so one action is one      *)
(* platform event (a promise resolving, a geolocation callback, a timer    *)
(* tick, a permission 'change' event, a React effect pass, a user call)    *)
(* together with the chain of continuations it resumes up to the next      *)
(* await on the platform.                                                  *)
(***************************************************************************)
EXTENDS Integers, FiniteSets, Sequences, Bags, TLC

\* Bounds of the model (not program constants).
MaxTasks == 1
MaxHandles == 2
MaxAccuracy == 24
MaxDistance == 40000000

VARIABLES
    position,            \* useState<GPSPosition | null>
    error,               \* useState<string | null>
    isTracking,          \* useState(false)
    permissionGranted,   \* useState<boolean | null>, as "null" / "true" / "false"
    permissionStatus,    \* useState 'unknown' | 'granted' | 'denied' | 'prompt'
    watchIdRef,          \* useRef<number | null>
    intervalIdRef,       \* useRef<Timeout | null>
    watches,             \* platform: ids of the watchPosition subscriptions that are live
    intervals,           \* platform: ids of the setInterval timers that are live
    listening,           \* platform: a 'change' listener is registered on a PermissionStatus
    geolocation,         \* platform: navigator.geolocation exists
    permissionsApi,      \* platform: 'permissions' in navigator and its query resolves
    permissionState,     \* platform: the permission the user has given ("granted"/"denied"/"prompt")
    enableBackgroundTracking,  \* option
    watchInterval,       \* option
    overlap,             \* caller: how many async calls of the hook it lets be in flight at once
    tasks,               \* bag of the async calls waiting on the platform
    effectDeps,          \* permissionStatus at the render whose effect ran last ("none" before mount)
    mounted,             \* the owning component is mounted
    totalDistance,       \* useTripDistance: useState(0)
    lastPositionRef,     \* useTripDistance: useRef<GPSPosition | null>(null)
    bearing,             \* caller: the bearing passed to getCompassDirection, in 1/BearingUnit degrees
    last                 \* history: the event handled last and what the call it resumed returned

hookVars == <<position, error, isTracking, permissionGranted, permissionStatus,
              watchIdRef, intervalIdRef, watches, intervals, listening>>
envVars == <<geolocation, permissionsApi, enableBackgroundTracking, watchInterval, overlap>>
tripVars == <<totalDistance, lastPositionRef>>
vars == <<hookVars, envVars, tripVars, bearing, permissionState, tasks, effectDeps, mounted, last>>

----------------------------------------------------------------------------
\* Values

Null == "null"
NoPosition == [isNull |-> TRUE]
NoHandle == 0
Undefined == -1
isBrowser == TRUE

MsgNotSupported == "Geolocation is not supported by this browser."
MsgDenied == "Location permission denied. Please enable location access in your device settings."
MsgUnavailable == "Location information is unavailable. Please check your GPS settings."
MsgTimeout == "Location request timed out. Please try again."
MsgUnknown(message) == "Location error: " \o message

\* GeolocationPositionError values the platform can raise.
ErrDenied == [code |-> "PERMISSION_DENIED", message |-> "denied by user"]
ErrUnavailable == [code |-> "POSITION_UNAVAILABLE", message |-> "no fix"]
ErrTimeout == [code |-> "TIMEOUT", message |-> "timed out"]
ErrOther == [code |-> "OTHER", message |-> "internal"]

GeoErrors == {ErrDenied, ErrUnavailable, ErrTimeout, ErrOther}

\* GeolocationPosition samples the platform can deliver (coords flattened).
\* A coords field the platform leaves null is Undefined here.
Samples ==
    { [latitude |-> 25, longitude |-> -80, accuracy |-> 4, altitude |-> 0,
       altitudeAccuracy |-> Undefined, heading |-> 0, speed |-> 0, timestamp |-> 1],
      [latitude |-> 26, longitude |-> -81, accuracy |-> 12, altitude |-> 3,
       altitudeAccuracy |-> 2, heading |-> 90, speed |-> 5, timestamp |-> 2] }

Options ==
    { [enableBackgroundTracking |-> TRUE, watchInterval |-> 30000],
      [enableBackgroundTracking |-> FALSE, watchInterval |-> 30000] }

\* What the platform can answer to a position request under a permission.
FetchErrors(perm) ==
    CASE perm = "granted" -> {ErrUnavailable, ErrTimeout, ErrOther}
      [] perm = "denied" -> {ErrDenied}
      [] OTHER -> {ErrDenied, ErrTimeout}

BoolStr(b) == IF b THEN "true" ELSE "false"

\* JavaScript numbers that can be NaN.  Every comparison with NaN is false
\* and every sum with NaN is NaN.
NaN == [nan |-> TRUE]
Num(v) == [nan |-> FALSE, v |-> v]
Plus(x, y) == IF x.nan \/ y.nan THEN NaN ELSE Num(x.v + y.v)
Geq(x, y) == ~x.nan /\ ~y.nan /\ x.v >= y.v
Eq(x, y) == ~x.nan /\ ~y.nan /\ x.v = y.v

----------------------------------------------------------------------------
\* The hook's mutable state as one record, so that handlers compose.

Cur ==
    [position |-> position, error |-> error, isTracking |-> isTracking,
     permissionGranted |-> permissionGranted, permissionStatus |-> permissionStatus,
     watchIdRef |-> watchIdRef, intervalIdRef |-> intervalIdRef,
     watches |-> watches, intervals |-> intervals, listening |-> listening]

\* React drops the state updates of a component that is unmounted; refs and
\* platform objects live on.
Commit(s) ==
    /\ position' = IF mounted THEN s.position ELSE position
    /\ error' = IF mounted THEN s.error ELSE error
    /\ isTracking' = IF mounted THEN s.isTracking ELSE isTracking
    /\ permissionGranted' = IF mounted THEN s.permissionGranted ELSE permissionGranted
    /\ permissionStatus' = IF mounted THEN s.permissionStatus ELSE permissionStatus
    /\ watchIdRef' = s.watchIdRef
    /\ intervalIdRef' = s.intervalIdRef
    /\ watches' = s.watches
    /\ intervals' = s.intervals
    /\ listening' = s.listening

\* The id the platform hands out: the smallest one not in use.
FreshId(used) == CHOOSE i \in 1..(MaxHandles + 1) : i \notin used /\ \A j \in 1..(i - 1) : j \in used

InBounds(s) == s.watches \subseteq 1..MaxHandles /\ s.intervals \subseteq 1..MaxHandles

----------------------------------------------------------------------------
\* Handlers of the hook (pure transformers of the state record)

\* `x || undefined`
OrUndefined(x) == IF x = 0 \/ x = Undefined THEN Undefined ELSE x

newPosition(p) ==
    [latitude |-> p.latitude, longitude |-> p.longitude, accuracy |-> p.accuracy,
     altitude |-> OrUndefined(p.altitude),
     altitudeAccuracy |-> OrUndefined(p.altitudeAccuracy),
     heading |-> OrUndefined(p.heading), speed |-> OrUndefined(p.speed),
     timestamp |-> p.timestamp]

\* Mutant: a position update that leaves the error in place.
handlePositionUpdate_keepsError(s, p) == [s EXCEPT !.position = newPosition(p)]

handlePositionUpdate(s, p) ==
    [s EXCEPT !.position = newPosition(p), !.error = Null]

\* Mutant: a handler that reports every failure as an unknown error.
handleError_unknownOnly(s, e) ==
    [s EXCEPT !.error = MsgUnknown(e.message), !.isTracking = FALSE]

\* Mutant: the handler of the hook's first revision, which leaves the
\* permission state alone.
handleError_noPermission(s, e) ==
    LET msg == CASE e.code = "PERMISSION_DENIED" -> MsgDenied
                 [] e.code = "POSITION_UNAVAILABLE" -> MsgUnavailable
                 [] e.code = "TIMEOUT" -> MsgTimeout
                 [] OTHER -> MsgUnknown(e.message)
    IN  [s EXCEPT !.error = msg, !.isTracking = FALSE]

handleError(s, e) ==
    LET s1 == CASE e.code = "PERMISSION_DENIED" ->
                     [s EXCEPT !.error = MsgDenied, !.permissionStatus = "denied",
                               !.permissionGranted = "false"]
                [] e.code = "POSITION_UNAVAILABLE" ->
                     [s EXCEPT !.error = MsgUnavailable, !.permissionStatus = "denied",
                               !.permissionGranted = "false"]
                [] e.code = "TIMEOUT" -> [s EXCEPT !.error = MsgTimeout]
                [] OTHER -> [s EXCEPT !.error = MsgUnknown(e.message)]
    IN  [s1 EXCEPT !.isTracking = FALSE]

\* checkPermissionStatus, after permissions.query resolved with `state`
checkPermissionStatus_query(s, state) ==
    [s EXCEPT !.permissionStatus = state, !.permissionGranted = BoolStr(state = "granted"),
              !.listening = TRUE]

\* Mutant: a 'change' listener that updates permissionStatus only.
onPermissionChange_statusOnly(s, newStatus) ==
    [s EXCEPT !.permissionStatus = newStatus]

\* the 'change' listener checkPermissionStatus registers
onPermissionChange(s, newStatus) ==
    [s EXCEPT !.permissionStatus = newStatus,
              !.permissionGranted = BoolStr(newStatus = "granted")]

\* checkPermissionStatus, fallback probe resolved
checkPermissionStatus_probeOk(s) ==
    [s EXCEPT !.permissionStatus = "granted", !.permissionGranted = "true"]

\* Mutant: a probe that reads every failure as a denial.
checkPermissionStatus_probeErr_denies(s, e) ==
    [s EXCEPT !.permissionStatus = "denied", !.permissionGranted = "false"]

\* checkPermissionStatus, fallback probe rejected
checkPermissionStatus_probeErr(s, e) ==
    IF e.code = "PERMISSION_DENIED"
    THEN [s EXCEPT !.permissionStatus = "denied", !.permissionGranted = "false"]
    ELSE [s EXCEPT !.permissionStatus = "prompt", !.permissionGranted = Null]

probeStatus(e) == IF e.code = "PERMISSION_DENIED" THEN "denied" ELSE "prompt"

\* requestPermission without a provider
requestPermission_unsupported(s) ==
    [s EXCEPT !.error = MsgNotSupported, !.permissionStatus = "denied",
              !.permissionGranted = "false"]

\* requestPermission, the test fetch resolved
requestPermission_testOk(s) ==
    [s EXCEPT !.permissionStatus = "granted", !.permissionGranted = "true"]

\* Mutant: the catch block reports the error and forgets the permission state.
requestPermission_catch_messageOnly(s, e) ==
    CASE e.code = "PERMISSION_DENIED" -> [s EXCEPT !.error = MsgDenied]
      [] e.code = "POSITION_UNAVAILABLE" -> [s EXCEPT !.error = MsgUnavailable]
      [] e.code = "TIMEOUT" -> [s EXCEPT !.error = MsgTimeout]
      [] OTHER -> [s EXCEPT !.error = MsgUnknown(e.message)]

\* requestPermission, catch block
requestPermission_catch(s, e) ==
    CASE e.code = "PERMISSION_DENIED" ->
           [s EXCEPT !.error = MsgDenied, !.permissionStatus = "denied",
                     !.permissionGranted = "false"]
      [] e.code = "POSITION_UNAVAILABLE" ->
           [s EXCEPT !.error = MsgUnavailable, !.permissionStatus = "denied",
                     !.permissionGranted = "false"]
      [] e.code = "TIMEOUT" -> [s EXCEPT !.error = MsgTimeout]
      [] OTHER -> [s EXCEPT !.error = MsgUnknown(e.message)]

\* Mutant: startTracking without the setError(null).
startTracking_keepsError(s, hasPermission) ==
    IF ~hasPermission
    THEN s
    ELSE LET w == FreshId(s.watches)
             s1 == [s EXCEPT !.isTracking = TRUE,
                             !.watchIdRef = w, !.watches = @ \cup {w}]
         IN  IF enableBackgroundTracking /\ watchInterval > 0
             THEN LET i == FreshId(s.intervals)
                  IN  [s1 EXCEPT !.intervalIdRef = i, !.intervals = @ \cup {i}]
             ELSE s1

\* Mutant: startTracking without the `if (!hasPermission) return`.
startTracking_unguarded(s, hasPermission) ==
    LET w == FreshId(s.watches)
        s1 == [s EXCEPT !.isTracking = TRUE, !.error = Null,
                        !.watchIdRef = w, !.watches = @ \cup {w}]
    IN  IF enableBackgroundTracking /\ watchInterval > 0
        THEN LET i == FreshId(s.intervals)
             IN  [s1 EXCEPT !.intervalIdRef = i, !.intervals = @ \cup {i}]
        ELSE s1

\* Mutant: startTracking that schedules the timer whatever the interval is.
startTracking_alwaysTimer(s, hasPermission) ==
    IF ~hasPermission
    THEN s
    ELSE LET w == FreshId(s.watches)
             s1 == [s EXCEPT !.isTracking = TRUE, !.error = Null,
                             !.watchIdRef = w, !.watches = @ \cup {w}]
         IN  IF enableBackgroundTracking
             THEN LET i == FreshId(s.intervals)
                  IN  [s1 EXCEPT !.intervalIdRef = i, !.intervals = @ \cup {i}]
             ELSE s1

\* startTracking after `await requestPermission()`
startTracking_afterPermission(s, hasPermission) ==
    IF ~hasPermission
    THEN s
    ELSE LET w == FreshId(s.watches)
             s1 == [s EXCEPT !.isTracking = TRUE, !.error = Null,
                             !.watchIdRef = w, !.watches = @ \cup {w}]
         IN  IF enableBackgroundTracking /\ watchInterval > 0
             THEN LET i == FreshId(s.intervals)
                  IN  [s1 EXCEPT !.intervalIdRef = i, !.intervals = @ \cup {i}]
             ELSE s1

\* Mutant: stopTracking without the clearInterval block.
stopTracking_keepsTimer(s) ==
    LET s1 == IF s.watchIdRef # NoHandle /\ isBrowser
              THEN [s EXCEPT !.watches = @ \ {s.watchIdRef}, !.watchIdRef = NoHandle]
              ELSE s
    IN  [s1 EXCEPT !.isTracking = FALSE]

\* Mutant: stopTracking that reports an error when there is nothing to stop.
stopTracking_complains(s) ==
    LET s1 == IF s.watchIdRef # NoHandle /\ isBrowser
              THEN [s EXCEPT !.watches = @ \ {s.watchIdRef}, !.watchIdRef = NoHandle]
              ELSE [s EXCEPT !.error = "Tracking is not active."]
        s2 == IF s1.intervalIdRef # NoHandle
              THEN [s1 EXCEPT !.intervals = @ \ {s1.intervalIdRef}, !.intervalIdRef = NoHandle]
              ELSE s1
    IN  [s2 EXCEPT !.isTracking = FALSE]

stopTracking(s) ==
    LET s1 == IF s.watchIdRef # NoHandle /\ isBrowser
              THEN [s EXCEPT !.watches = @ \ {s.watchIdRef}, !.watchIdRef = NoHandle]
              ELSE s
        s2 == IF s1.intervalIdRef # NoHandle
              THEN [s1 EXCEPT !.intervals = @ \ {s1.intervalIdRef}, !.intervalIdRef = NoHandle]
              ELSE s1
    IN  [s2 EXCEPT !.isTracking = FALSE]

----------------------------------------------------------------------------
\* Async calls in flight.  A task is a call of one of the hook's async
\* functions, suspended at an await on the platform:
\*   pc "query"  await navigator.permissions.query        (checkPermissionStatus)
\*   pc "probe"  await the 1 s fallback fetch              (checkPermissionStatus)
\*   pc "test"   await the permission-prompt test fetch    (requestPermission)
\*   pc "fetch"  the single-shot fetch of getCurrentPosition
\* src is who made the call: "user", "effect" (initializeGPS), "timer" (the
\* fallback interval) or "stale" (the fallback interval, and stopTracking
\* has run since).  g is initializeGPS's captured `permissionStatus === 'granted'`.

Task(fn, pc, src, g) == [fn |-> fn, pc |-> pc, src |-> src, g |-> g]

\* checkPermissionStatus: the first await, given that a provider exists
FirstPc == IF permissionsApi THEN "query" ELSE "probe"

Room == BagCardinality(tasks) < overlap
Pending == BagToSet(tasks)

Done(s, ret) == [s |-> s, next |-> {}, ret |-> ret]
Goto(s, t, pc) == [s |-> s, next |-> {[t EXCEPT !.pc = pc]}, ret |-> "-"]

\* getCurrentPosition: success callback of the single-shot fetch
getCurrentPosition_onSuccess(s, p) == Done(handlePositionUpdate(s, p), "position")

\* getCurrentPosition: the error callback is handleError; resolve is never called
getCurrentPosition_onError(s, e) ==
    Done(handleError(s, e), "pending")

\* the caller's continuation after `await requestPermission()` returned `ok`
afterRequest(t, s, ok) ==
    CASE t.fn = "startTracking" -> Done(startTracking_afterPermission(s, ok), "void")
      [] t.fn = "getCurrentPosition" -> IF ok THEN Goto(s, t, "fetch") ELSE Done(s, Null)
      [] OTHER -> Done(s, BoolStr(ok))

\* requestPermission after `await checkPermissionStatus()` returned `status`
requestPermission_afterCheck(t, s, status) ==
    CASE status = "granted" -> afterRequest(t, s, TRUE)
      [] status = "denied" -> afterRequest(t, [s EXCEPT !.error = MsgDenied], FALSE)
      [] OTHER -> Goto(s, t, "test")

\* initializeGPS after `await checkPermissionStatus()`
initializeGPS_afterCheck(t, s, status) ==
    IF t.g
    THEN [s |-> s, next |-> {Task("getCurrentPosition", FirstPc, "effect", FALSE)}, ret |-> "-"]
    ELSE Done(s, "void")

afterCheck(t, s, status) ==
    IF t.fn = "initializeGPS"
    THEN initializeGPS_afterCheck(t, s, status)
    ELSE requestPermission_afterCheck(t, s, status)

\* The position request a task waits for resolved with sample p.
onFetchSuccess(t, s, p) ==
    CASE t.pc = "probe" -> afterCheck(t, checkPermissionStatus_probeOk(s), "granted")
      [] t.pc = "test" -> afterRequest(t, requestPermission_testOk(s), TRUE)
      [] OTHER -> getCurrentPosition_onSuccess(s, p)

\* The position request a task waits for failed with error e.
onFetchError(t, s, e) ==
    CASE t.pc = "probe" -> afterCheck(t, checkPermissionStatus_probeErr(s, e), probeStatus(e))
      [] t.pc = "test" -> afterRequest(t, requestPermission_catch(s, e), FALSE)
      [] OTHER -> getCurrentPosition_onError(s, e)

\* ret is what the call returned to its caller in this step: "void", "null",
\* "true", "false", "position"; "pending" when its promise can no longer be
\* settled; "-" when no call ended in this step.  For the two calls of
\* useTripDistance, which return nothing, ret is the point the call was given
\* (NoPosition for reset).
\* was is the session state in which the event arrived.
SessionState == IF isTracking THEN "Active" ELSE IF error # Null THEN "Error" ELSE "Idle"

Event(op, fn, ret) == [op |-> op, fn |-> fn, ret |-> ret, was |-> SessionState]

Finish(t, r, op) ==
    /\ InBounds(r.s)
    /\ Commit(r.s)
    /\ tasks' = (tasks (-) SetToBag({t})) (+) SetToBag(r.next)
    /\ last' = Event(op, t.fn, r.ret)
    /\ UNCHANGED <<envVars, bearing, tripVars, permissionState, effectDeps, mounted>>

MarkStale(t) == IF t.src = "timer" THEN [t EXCEPT !.src = "stale"] ELSE t

----------------------------------------------------------------------------
\* Platform events

QueryResolves(t) ==
    /\ t.pc = "query"
    /\ Finish(t, afterCheck(t, checkPermissionStatus_query(Cur, permissionState),
                            permissionState), "query")

FetchSucceeds(t, p) ==
    /\ t.pc \in {"probe", "test", "fetch"}
    /\ permissionState = "granted"
    /\ Finish(t, onFetchSuccess(t, Cur, p), "fetchOk")

FetchFails(t, e) ==
    /\ t.pc \in {"probe", "test", "fetch"}
    /\ e \in FetchErrors(permissionState)
    /\ Finish(t, onFetchError(t, Cur, e), "fetchError")

WatchDelivers(w, p) ==
    /\ w \in watches
    /\ permissionState = "granted"
    /\ Commit(handlePositionUpdate(Cur, p))
    /\ last' = Event("watchUpdate", "watch", "-")
    /\ UNCHANGED <<envVars, bearing, tripVars, permissionState, tasks, effectDeps, mounted>>

WatchFails(w, e) ==
    /\ w \in watches
    /\ e \in FetchErrors(permissionState)
    /\ Commit(handleError(Cur, e))
    /\ last' = Event("watchError", "watch", "-")
    /\ UNCHANGED <<envVars, bearing, tripVars, permissionState, tasks, effectDeps, mounted>>

\* setInterval callback: getCurrentPosition()
TimerFires(i) ==
    /\ i \in intervals
    /\ Room
    /\ tasks' = tasks (+) SetToBag({Task("getCurrentPosition", FirstPc, "timer", FALSE)})
    /\ last' = Event("timer", "getCurrentPosition", "-")
    /\ UNCHANGED <<hookVars, envVars, bearing, tripVars, permissionState, effectDeps, mounted>>

\* The user changes the permission (prompt answer, browser or OS settings).
PermissionChanges(new) ==
    /\ geolocation
    /\ new # permissionState
    /\ permissionState' = new
    /\ Commit(IF listening THEN onPermissionChange(Cur, new) ELSE Cur)
    /\ last' = Event("permissionChange", "listener", "-")
    /\ UNCHANGED <<envVars, bearing, tripVars, tasks, effectDeps, mounted>>

----------------------------------------------------------------------------
\* Calls by the user of the hook.  React flushes the mount effect before it
\* handles an event of the user.

Ready == mounted /\ effectDeps # "none"

CallStartTracking ==
    /\ Ready
    /\ IF ~isBrowser \/ ~geolocation
       THEN /\ Commit([Cur EXCEPT !.error = MsgNotSupported])
            /\ UNCHANGED tasks
       ELSE /\ Room
            /\ tasks' = tasks (+) SetToBag({Task("startTracking", FirstPc, "user", FALSE)})
            /\ UNCHANGED hookVars
    /\ last' = Event("call", "startTracking", IF geolocation THEN "-" ELSE "void")
    /\ UNCHANGED <<envVars, bearing, tripVars, permissionState, effectDeps, mounted>>

CallGetCurrentPosition ==
    /\ Ready
    /\ IF ~isBrowser \/ ~geolocation
       THEN /\ Commit([Cur EXCEPT !.error = MsgNotSupported])
            /\ UNCHANGED tasks
       ELSE /\ Room
            /\ tasks' = tasks (+) SetToBag({Task("getCurrentPosition", FirstPc, "user", FALSE)})
            /\ UNCHANGED hookVars
    /\ last' = Event("call", "getCurrentPosition", IF geolocation THEN "-" ELSE Null)
    /\ UNCHANGED <<envVars, bearing, tripVars, permissionState, effectDeps, mounted>>

CallRequestPermission ==
    /\ Ready
    /\ IF ~isBrowser \/ ~geolocation
       THEN /\ Commit(requestPermission_unsupported(Cur))
            /\ UNCHANGED tasks
       ELSE /\ Room
            /\ tasks' = tasks (+) SetToBag({Task("requestPermission", FirstPc, "user", FALSE)})
            /\ UNCHANGED hookVars
    /\ last' = Event("call", "requestPermission", IF geolocation THEN "-" ELSE "false")
    /\ UNCHANGED <<envVars, bearing, tripVars, permissionState, effectDeps, mounted>>

CallStopTracking ==
    /\ Ready
    /\ Commit(stopTracking(Cur))
    /\ tasks' = BagOfAll(MarkStale, tasks)
    /\ last' = Event("stop", "stopTracking", "void")
    /\ UNCHANGED <<envVars, bearing, tripVars, permissionState, effectDeps, mounted>>

----------------------------------------------------------------------------
\* React

\* The function the effect returns: () => { stopTracking() }
cleanup(s) == stopTracking(s)

\* useEffect: runs after mount and after every render in which
\* permissionStatus differs from the previous render (its other dependencies
\* are stable callbacks).  The previous effect's cleanup, stopTracking, runs
\* first; then initializeGPS starts.
RunEffect ==
    /\ mounted
    /\ effectDeps # permissionStatus
    /\ LET cleaned == IF effectDeps = "none" THEN Cur ELSE cleanup(Cur)
           kept == IF effectDeps = "none" THEN tasks ELSE BagOfAll(MarkStale, tasks)
       IN  IF ~geolocation
           THEN /\ Commit(IF permissionStatus = "granted"
                          THEN [cleaned EXCEPT !.error = MsgNotSupported]
                          ELSE cleaned)
                /\ tasks' = kept
           ELSE /\ Room
                /\ Commit(cleaned)
                /\ tasks' = kept (+) SetToBag({Task("initializeGPS", FirstPc, "effect",
                                                    permissionStatus = "granted")})
    /\ effectDeps' = permissionStatus
    /\ last' = Event("effect", "initializeGPS", "-")
    /\ UNCHANGED <<envVars, bearing, tripVars, permissionState, mounted>>

\* Teardown of the owning component: the effect's cleanup runs.
Unmount ==
    /\ mounted
    /\ effectDeps # "none"
    /\ mounted' = FALSE
    /\ Commit(cleanup(Cur))
    /\ tasks' = BagOfAll(MarkStale, tasks)
    /\ last' = Event("unmount", "stopTracking", "void")
    /\ UNCHANGED <<envVars, bearing, tripVars, permissionState, effectDeps>>

----------------------------------------------------------------------------

\* The hook at its first render, before its effect has run.
InitHook ==
    /\ position = NoPosition
    /\ error = Null
    /\ isTracking = FALSE
    /\ permissionGranted = Null
    /\ permissionStatus = "unknown"
    /\ watchIdRef = NoHandle
    /\ intervalIdRef = NoHandle
    /\ watches = {}
    /\ intervals = {}
    /\ listening = FALSE
    /\ tasks = EmptyBag
    /\ effectDeps = "none"
    /\ mounted = TRUE
    /\ last = Event("init", "-", "-")
    /\ totalDistance = Num(0)
    /\ lastPositionRef = NoPosition
    /\ bearing = 0

Init ==
    /\ InitHook
    /\ geolocation \in BOOLEAN
    /\ permissionsApi \in BOOLEAN
    /\ permissionState \in {"granted", "denied", "prompt"}
    /\ \E o \in Options :
          /\ enableBackgroundTracking = o.enableBackgroundTracking
          /\ watchInterval = o.watchInterval
    /\ overlap = MaxTasks

Next ==
    \/ \E t \in Pending : QueryResolves(t)
    \/ \E t \in Pending, p \in Samples : FetchSucceeds(t, p)
    \/ \E t \in Pending, e \in GeoErrors : FetchFails(t, e)
    \/ \E w \in watches, p \in Samples : WatchDelivers(w, p)
    \/ \E w \in watches, e \in GeoErrors : WatchFails(w, e)
    \/ \E i \in intervals : TimerFires(i)
    \/ \E new \in {"granted", "denied", "prompt"} : PermissionChanges(new)
    \/ CallStartTracking
    \/ CallGetCurrentPosition
    \/ CallRequestPermission
    \/ CallStopTracking
    \/ RunEffect
    \/ Unmount

Spec == Init /\ [][Next]_vars

\* The fallback timer is checked with the options a caller can pass for it:
\* background tracking on or off, and an interval of 0 as well as the default.
TimerOptions ==
    Options \cup { [enableBackgroundTracking |-> TRUE, watchInterval |-> 0] }

InitTimer ==
    /\ InitHook
    /\ geolocation = TRUE
    /\ permissionsApi = TRUE
    /\ permissionState \in {"granted", "denied", "prompt"}
    /\ \E o \in TimerOptions :
          /\ enableBackgroundTracking = o.enableBackgroundTracking
          /\ watchInterval = o.watchInterval
    /\ overlap = MaxTasks

TimerSpec == InitTimer /\ [][Next]_vars

\* Liveness is checked in a browser that has the Permissions API (the only
\* one that sends permission-change notifications), with the fallback timer
\* configured, and with a caller that lets one more call overlap.
InitFair ==
    /\ InitHook
    /\ geolocation = TRUE
    /\ permissionsApi = TRUE
    /\ permissionState \in {"granted", "denied", "prompt"}
    /\ enableBackgroundTracking = TRUE
    /\ watchInterval = 30000
    /\ overlap = MaxTasks + 1

\* The user's calls and the permission changes the user makes in
\* the browser happen at human speed: React has flushed the pending effect
\* before the next one of them arrives.  Platform callbacks and timers
\* interleave freely with React.  React always gets to run a pending effect,
\* and the platform answers every request (queries resolve, fetches succeed,
\* fail or time out).
Quiet == ~mounted \/ effectDeps = permissionStatus

NextFair ==
    \/ \E t \in Pending : QueryResolves(t)
    \/ \E t \in Pending, p \in Samples : FetchSucceeds(t, p)
    \/ \E t \in Pending, e \in GeoErrors : FetchFails(t, e)
    \/ \E w \in watches, p \in Samples : WatchDelivers(w, p)
    \/ \E w \in watches, e \in GeoErrors : WatchFails(w, e)
    \/ \E i \in intervals : TimerFires(i)
    \/ Quiet /\ \E new \in {"granted", "denied", "prompt"} : PermissionChanges(new)
    \/ Quiet /\ CallStartTracking
    \/ Quiet /\ CallGetCurrentPosition
    \/ Quiet /\ CallRequestPermission
    \/ Quiet /\ CallStopTracking
    \/ RunEffect
    \/ Unmount

AnswerPending ==
    \E t \in Pending :
        \/ QueryResolves(t)
        \/ \E p \in Samples : FetchSucceeds(t, p)
        \/ \E e \in GeoErrors : FetchFails(t, e)

FairSpec == InitFair /\ [][NextFair]_vars /\ SF_vars(RunEffect) /\ WF_vars(AnswerPending)

----------------------------------------------------------------------------
\* The tiers the hook exposes

\* Mutant: thresholds that include their bound.
getAccuracyLevel_inclusive(a) ==
    IF a <= 5 THEN "high" ELSE IF a <= 10 THEN "medium" ELSE IF a <= 20 THEN "low" ELSE "poor"

getAccuracyLevel(a) ==
    IF a < 5 THEN "high" ELSE IF a < 10 THEN "medium" ELSE IF a < 20 THEN "low" ELSE "poor"

\* Mutant: thresholds that include their bound.
getSignalStrength_inclusive(a) ==
    IF a <= 3 THEN "excellent" ELSE IF a <= 8 THEN "good" ELSE IF a <= 15 THEN "fair" ELSE "poor"

getSignalStrength(a) ==
    IF a < 3 THEN "excellent" ELSE IF a < 8 THEN "good" ELSE IF a < 15 THEN "fair" ELSE "poor"

\* the hook's return value
accuracy == IF position # NoPosition THEN getAccuracyLevel(position.accuracy) ELSE "poor"
signalStrength == IF position # NoPosition THEN getSignalStrength(position.accuracy) ELSE "poor"

\* Fixes of every accuracy (whole metres) up to MaxAccuracy.
Fixes ==
    { [latitude |-> 25, longitude |-> -80, accuracy |-> a, altitude |-> 0,
       altitudeAccuracy |-> Undefined, heading |-> h, speed |-> sp, timestamp |-> 1] :
      a \in 0..MaxAccuracy, h \in {0, 90}, sp \in {0, 5} }

\* The platform delivers a fix to handlePositionUpdate.
PositionUpdate(p) ==
    /\ Commit(handlePositionUpdate(Cur, p))
    /\ last' = Event("watchUpdate", "watch", "-")
    /\ UNCHANGED <<envVars, bearing, tripVars, permissionState, tasks, effectDeps, mounted>>

InitPure ==
    /\ InitHook
    /\ geolocation = TRUE
    /\ permissionsApi = TRUE
    /\ permissionState = "granted"
    /\ enableBackgroundTracking = FALSE
    /\ watchInterval = 30000
    /\ overlap = MaxTasks

NextTier == \E p \in Fixes : PositionUpdate(p)

TierSpec == InitPure /\ [][NextTier]_vars

----------------------------------------------------------------------------
\* useTripDistance and calculateDistance

\* calculateDistance works in floating point; here it works in fixed point
\* with Scale units to one, on coordinates in whole even degrees, and
\* rounds after every operation as floating point does.
Scale == 100
R == 6371000
Pi == 314

\* Math.sin of whole degrees 0..90, times Scale, rounded to nearest.
SinTable ==
    << 0, 2, 3, 5, 7, 9, 10, 12, 14, 16, 17, 19, 21,
       22, 24, 26, 28, 29, 31, 33, 34, 36, 37, 39, 41, 42,
       44, 45, 47, 48, 50, 52, 53, 54, 56, 57, 59, 60, 62,
       63, 64, 66, 67, 68, 69, 71, 72, 73, 74, 75, 77, 78,
       79, 80, 81, 82, 83, 84, 85, 86, 87, 87, 88, 89, 90,
       91, 91, 92, 93, 93, 94, 95, 95, 96, 96, 97, 97, 97,
       98, 98, 98, 99, 99, 99, 99, 100, 100, 100, 100, 100, 100 >>

Sin(d) ==
    LET m == IF d < 0 THEN -d ELSE d
        v == SinTable[(IF m > 90 THEN 180 - m ELSE m) + 1]
    IN  IF d < 0 THEN -v ELSE v

Cos(d) == Sin(90 - (IF d < 0 THEN -d ELSE d))

\* Math.sqrt of n / Scale^2, times Scale; NaN for a negative argument.
Sqrt(n) ==
    IF n < 0 THEN NaN
    ELSE Num(CHOOSE r \in 0..(Scale + 1) : r * r <= n /\ n < (r + 1) * (r + 1))

\* Math.atan2(y, x) for y, x >= 0, in whole degrees; NaN if an argument is.
Atan2(y, x) ==
    IF y.nan \/ x.nan THEN NaN
    ELSE Num(CHOOSE d \in 0..90 :
                /\ Sin(d) * x.v <= Cos(d) * y.v
                /\ \A e \in (d + 1)..90 : Sin(e) * x.v > Cos(e) * y.v)

calculateDistance(lat1, lon1, lat2, lon2) ==
    LET sinHalfDPhi == Sin((lat2 - lat1) \div 2)
        sinHalfDLambda == Sin((lon2 - lon1) \div 2)
        a == sinHalfDPhi * sinHalfDPhi
               + ((Cos(lat1) * Cos(lat2)) \div Scale)
                   * ((sinHalfDLambda * sinHalfDLambda) \div Scale)
        half == Atan2(Sqrt(a), Sqrt(Scale * Scale - a))
    IN  IF half.nan THEN NaN
        ELSE Num((R \div Scale) * ((2 * half.v * Pi) \div 180))

\* Mutant: reset that forgets to clear the last position.
reset_keepsLast == [totalDistance |-> Num(0), lastPositionRef |-> lastPositionRef]

reset == [totalDistance |-> Num(0), lastPositionRef |-> NoPosition]

\* Mutant: addPoint that stores the point only when none is stored.
addPoint_keepsFirst(pt) ==
    [totalDistance |->
         IF lastPositionRef # NoPosition
         THEN Plus(totalDistance,
                   calculateDistance(lastPositionRef.latitude, lastPositionRef.longitude,
                                     pt.latitude, pt.longitude))
         ELSE totalDistance,
     lastPositionRef |-> IF lastPositionRef # NoPosition THEN lastPositionRef ELSE pt]

addPoint(pt) ==
    [totalDistance |->
         IF lastPositionRef # NoPosition
         THEN Plus(totalDistance,
                   calculateDistance(lastPositionRef.latitude, lastPositionRef.longitude,
                                     pt.latitude, pt.longitude))
         ELSE totalDistance,
     lastPositionRef |-> pt]

\* Points a trip can pass through.
Points ==
    { [latitude |-> -12, longitude |-> 0], [latitude |-> 0, longitude |-> 0],
      [latitude |-> 12, longitude |-> 0], [latitude |-> 12, longitude |-> 180] }

AddPoint(pt) ==
    LET r == addPoint(pt)
    IN  /\ IF r.totalDistance.nan THEN TRUE ELSE r.totalDistance.v <= MaxDistance
        /\ totalDistance' = r.totalDistance
        /\ lastPositionRef' = r.lastPositionRef
        /\ last' = Event("addPoint", "useTripDistance", pt)
        /\ UNCHANGED <<hookVars, envVars, bearing, permissionState, tasks, effectDeps, mounted>>

Reset ==
    /\ totalDistance' = reset.totalDistance
    /\ lastPositionRef' = reset.lastPositionRef
    /\ last' = Event("reset", "useTripDistance", NoPosition)
    /\ UNCHANGED <<hookVars, envVars, bearing, permissionState, tasks, effectDeps, mounted>>

NextTrip ==
    \/ \E pt \in Points : AddPoint(pt)
    \/ Reset

TripSpec == InitPure /\ [][NextTrip]_vars

----------------------------------------------------------------------------
\* getCompassDirection (lib/utils.ts)

\* Bearings are in hundredths of a degree.
BearingUnit == 100
FullCircle == 360 * BearingUnit

directions ==
    << "N", "NNE", "NE", "ENE", "E", "ESE", "SE", "SSE",
       "S", "SSW", "SW", "WSW", "W", "WNW", "NW", "NNW" >>

\* Math.round(n / d) for n >= 0, d > 0: halves round up.
Round(n, d) == (2 * n + d) \div (2 * d)

\* Mutant: Math.floor in place of Math.round.
getCompassDirection_floor(b) ==
    directions[((b \div ((45 * BearingUnit) \div 2)) % 16) + 1]

getCompassDirection(b) ==
    directions[(Round(b, (45 * BearingUnit) \div 2) % 16) + 1]

\* The caller turns by delta and asks for the compass point.
Turn(delta) ==
    /\ bearing' = (bearing + delta) % FullCircle
    /\ last' = Event("compass", "getCompassDirection", getCompassDirection(bearing'))
    /\ UNCHANGED <<hookVars, envVars, tripVars, permissionState, tasks, effectDeps, mounted>>

NextCompass == \E delta \in {1, (45 * BearingUnit) \div 4} : Turn(delta)

CompassSpec == InitPure /\ [][NextCompass]_vars

----------------------------------------------------------------------------
\* Properties

\* A step of the async call t: the platform answers what t waits for.
Steps(t) ==
    \/ QueryResolves(t)
    \/ \E p \in Samples : FetchSucceeds(t, p)
    \/ \E e \in GeoErrors : FetchFails(t, e)

\* The step in which requestPermission (inside call t) returns true.
PermissionGrantedStep(t) ==
    \/ t.pc = "query" /\ permissionState = "granted" /\ QueryResolves(t)
    \/ t.pc \in {"probe", "test"} /\ \E p \in Samples : FetchSucceeds(t, p)

\* The step in which the provider refuses call t with permission-denied.
PermissionDeniedStep(t) ==
    \/ t.pc = "query" /\ permissionState = "denied" /\ QueryResolves(t)
    \/ t.pc \in {"probe", "test"} /\ FetchFails(t, ErrDenied)

\* The effect's cleanup runs: on a re-run of the effect and on unmount.
Teardown == Unmount \/ (RunEffect /\ effectDeps # "none")

\* C1: at most one watch subscription created by the instance is live at any
\* time (startTracking while Active creates no second subscription).
C1_AtMostOneWatch == Cardinality(watches) <= 1

\* C2: once stopTracking has run, no callback of a single-shot fetch that the
\* fallback timer had started changes the latest position, the current error
\* or the session state.  (A cancelled watch is no longer in `watches`, so the
\* platform delivers nothing for it.)
C2_NoLingeringCallbacks ==
    [][(\E t \in Pending : t.src = "stale" /\ Steps(t))
          => UNCHANGED <<position, error, isTracking>>]_vars

C4_WatchOnlyAfterPermission ==
    [][/\ (watches' \ watches # {} \/ intervals' \ intervals # {} \/ (~isTracking /\ isTracking'))
            => \E t \in Pending : t.fn = "startTracking" /\ PermissionGrantedStep(t)
       /\ \A t \in Pending :
            (t.fn = "startTracking" /\ Steps(t) /\ ~PermissionGrantedStep(t))
            => UNCHANGED <<watches, intervals, watchIdRef, intervalIdRef, isTracking>>
       /\ (CallStartTracking /\ ~geolocation)
            => UNCHANGED <<watches, intervals, watchIdRef, intervalIdRef, isTracking>>]_vars

C4_Witness ==
    /\ last.op = "fetchError"
    /\ last.fn = "startTracking"
    /\ last.ret = "void"
    /\ last.was = "Idle"
    /\ error = MsgTimeout
    /\ watches = {}

\* C5: when the provider refuses a startTracking call with permission-denied
\* (the call being made on a session that is not Active), the session is in
\* Error afterwards, the error is the PermissionDenied one and the Permission
\* State is Denied.
C5_DeniedOnStart ==
    [][\A t \in Pending :
          (t.fn = "startTracking" /\ PermissionDeniedStep(t) /\ mounted /\ ~isTracking)
          => /\ ~isTracking'
             /\ error' = MsgDenied
             /\ permissionStatus' = "denied"]_vars

C5_Witness ==
    /\ last.fn = "startTracking"
    /\ last.ret = "void"
    /\ last.was = "Idle"
    /\ error = MsgDenied
    /\ permissionStatus = "denied"
    /\ ~isTracking

\* C6: a permission-denied failure reported by the watch while the session is
\* Active makes isTracking false, shows the PermissionDenied error and sets the
\* Permission State to Denied.
C6_DeniedWhileActive ==
    [][\A w \in watches :
          (WatchFails(w, ErrDenied) /\ isTracking /\ mounted)
          => /\ ~isTracking'
             /\ error' = MsgDenied
             /\ permissionStatus' = "denied"]_vars

C6_Witness ==
    /\ last.op = "watchError"
    /\ last.was = "Active"
    /\ error = MsgDenied
    /\ mounted

\* C7: when the permission 'change' listener reports Denied while the session
\* is Active, the session leaves Active without a call by the user.
C7_DenialObserved ==
    (last.op = "permissionChange" /\ permissionState = "denied" /\ listening
        /\ isTracking /\ mounted)
    ~> ~isTracking

C7_Witness ==
    /\ last.op = "permissionChange"
    /\ last.was = "Active"
    /\ permissionState = "denied"
    /\ permissionStatus = "denied"
    /\ listening
    /\ isTracking
    /\ mounted

\* C8: no step of a getCurrentPosition call changes the session state: a
\* session that is Active stays Active with its watch, an Idle one stays Idle.
C8_GetCurrentPositionKeepsSession ==
    [][\A t \in Pending :
          (t.fn = "getCurrentPosition" /\ Steps(t))
          => UNCHANGED <<isTracking, watchIdRef, watches>>]_vars

\* C9: once the platform has resolved the single-shot fetch of a
\* getCurrentPosition call, the call has returned to its caller.
C9_EveryCallReturns == last.ret # "pending"

\* C10: stopTracking produces no error and leaves the position alone; called
\* on a session that is not Active it leaves the session state as it is; and
\* a stopTracking that follows a stopTracking changes nothing at all.
C10_StopIdempotent ==
    [][CallStopTracking
          => /\ error' = error
             /\ position' = position
             /\ (~isTracking => ~isTracking')
             /\ (last.op = "stop" => UNCHANGED hookVars)]_vars

C10_Witness ==
    /\ last.op = "stop"
    /\ last.was = "Error"
    /\ watchIdRef = NoHandle
    /\ intervalIdRef = NoHandle

\* C11: after stopTracking has returned the exposed error is absent.
C11_StopClearsError == [][CallStopTracking => error' = Null]_vars

\* C12: the error is always absent or one value of the taxonomy, and every
\* successful position update, from the watch or from the single-shot fetch
\* of getCurrentPosition, leaves the error absent.
C12_UpdateClearsError ==
    /\ error = Null
    /\ [][/\ error' \in {Null, MsgNotSupported, MsgDenied, MsgUnavailable, MsgTimeout}
                      \cup {MsgUnknown(e.message) : e \in GeoErrors}
          /\ \A p \in Samples :
                /\ \A w \in watches :
                      (WatchDelivers(w, p) /\ mounted)
                          => error' = Null /\ position' = newPosition(p)
                /\ \A t \in Pending :
                      (t.pc = "fetch" /\ FetchSucceeds(t, p) /\ mounted)
                          => error' = Null /\ position' = newPosition(p)]_vars

C12_Witness ==
    /\ last.op \in {"watchUpdate", "fetchOk"}
    /\ last.ret \in {"-", "position"}
    /\ last.fn \in {"watch", "getCurrentPosition"}
    /\ last.was = "Error"
    /\ error = Null
    /\ position # NoPosition

\* C13: a retry from Error is accepted.  The step in which the permission
\* request of a startTracking call succeeds makes the session Active with
\* the error cleared, a getCurrentPosition whose fetch succeeds clears the
\* error, and in the Error state both calls can be made.
C13_RetryFromError ==
    [][/\ \A t \in Pending :
            /\ (t.fn = "startTracking" /\ PermissionGrantedStep(t) /\ mounted)
                  => isTracking' /\ error' = Null
            /\ (t.fn = "getCurrentPosition" /\ t.pc = "fetch" /\ mounted
                    /\ \E p \in Samples : FetchSucceeds(t, p))
                  => error' = Null
       /\ (Ready /\ SessionState = "Error" /\ Room)
            => ENABLED CallStartTracking /\ ENABLED CallGetCurrentPosition]_vars

C13_Witness ==
    /\ last.fn = "startTracking"
    /\ last.ret = "void"
    /\ last.was = "Error"
    /\ last.op \in {"query", "fetchOk"}
    /\ isTracking
    /\ error = Null

\* C14: requestPermission returns true only in the step in which a
\* single-shot fetch it started succeeds, it returns false when the provider
\* denies or times out, and the permission state it leaves is Granted after
\* true and Denied after a denial.
C14_RequestResult ==
    [][\A t \in Pending :
          (t.fn = "requestPermission" /\ Steps(t) /\ mounted) =>
              /\ last'.ret = "true"
                    => last'.op = "fetchOk" /\ permissionStatus' = "granted"
              /\ (PermissionDeniedStep(t) \/ (t.pc = "test" /\ FetchFails(t, ErrTimeout)))
                    => last'.ret = "false"
              /\ PermissionDeniedStep(t) => permissionStatus' = "denied"]_vars

\* C15: without a permission-query primitive checkPermissionStatus probes
\* with a single-shot fetch and leaves the permission state Granted on
\* success, Denied on a permission-denied failure and Prompt on a timeout or
\* position-unavailable failure; its caller acts on that same value.
C15_ProbeFallback ==
    [][\A t \in Pending :
          (t.pc = "probe" /\ mounted) =>
              /\ (\E p \in Samples : FetchSucceeds(t, p))
                    => /\ permissionStatus' = "granted"
                       /\ permissionGranted' = "true"
                       /\ t.fn = "requestPermission" => last'.ret = "true"
              /\ FetchFails(t, ErrDenied)
                    => /\ permissionStatus' = "denied"
                       /\ permissionGranted' = "false"
                       /\ t.fn = "requestPermission" => last'.ret = "false"
              /\ (FetchFails(t, ErrTimeout) \/ FetchFails(t, ErrUnavailable))
                    => /\ permissionStatus' = "prompt"
                       /\ permissionGranted' = Null
                       /\ t.fn # "initializeGPS"
                            => [t EXCEPT !.pc = "test"] \in BagToSet(tasks')]_vars

C15_Witness ==
    /\ ~permissionsApi
    /\ last.op = "fetchError"
    /\ last.fn = "requestPermission"
    /\ last.ret = "-"
    /\ permissionStatus = "prompt"
    /\ permissionGranted = Null

\* C16: every failure is surfaced as the matching error: a missing provider
\* as NotSupported, and a failure reported to the watch, to the test fetch
\* of requestPermission or to the single-shot fetch of getCurrentPosition as
\* PermissionDenied, PositionUnavailable, Timeout or Unknown with the
\* platform's message, by its code.
C16_ErrorTaxonomy ==
    [][/\ ((CallStartTracking \/ CallGetCurrentPosition \/ CallRequestPermission)
              /\ ~geolocation) => error' = MsgNotSupported
       /\ \A e \in GeoErrors :
            ((\/ \E w \in watches : WatchFails(w, e)
              \/ \E t \in Pending : t.pc \in {"test", "fetch"} /\ FetchFails(t, e))
             /\ mounted)
            => error' = CASE e.code = "PERMISSION_DENIED" -> MsgDenied
                          [] e.code = "POSITION_UNAVAILABLE" -> MsgUnavailable
                          [] e.code = "TIMEOUT" -> MsgTimeout
                          [] OTHER -> "Location error: " \o e.message]_vars

C16_Witness ==
    /\ last.op = "watchError"
    /\ error = "Location error: internal"
    /\ mounted

\* C17: the exposed accuracy tier depends on the latest position only: poor
\* without a position, else high below 5, medium from 5 below 10, low from
\* 10 below 20, poor from 20; a larger accuracy value never has a better tier.
C17_AccuracyTier ==
    /\ position = NoPosition => accuracy = "poor"
    /\ position # NoPosition =>
          LET a == position.accuracy
          IN  /\ a < 5 => accuracy = "high"
              /\ (5 <= a /\ a < 10) => accuracy = "medium"
              /\ (10 <= a /\ a < 20) => accuracy = "low"
              /\ 20 <= a => accuracy = "poor"
    /\ LET rank == [t \in {"high", "medium", "low", "poor"} |->
                        CASE t = "high" -> 0 [] t = "medium" -> 1
                          [] t = "low" -> 2 [] OTHER -> 3]
       IN  \A a, b \in 0..MaxAccuracy :
              a <= b => rank[getAccuracyLevel(a)] <= rank[getAccuracyLevel(b)]

C17_Witness ==
    /\ last.op = "watchUpdate"
    /\ position # NoPosition
    /\ position.accuracy = 5
    /\ accuracy = "medium"

\* C18: the exposed signal strength depends on the latest position only:
\* poor without a position, else excellent below 3, good from 3 below 8,
\* fair from 8 below 15, poor from 15; a larger accuracy value never has a
\* better tier.
C18_SignalTier ==
    /\ position = NoPosition => signalStrength = "poor"
    /\ position # NoPosition =>
          LET a == position.accuracy
          IN  /\ a < 3 => signalStrength = "excellent"
              /\ (3 <= a /\ a < 8) => signalStrength = "good"
              /\ (8 <= a /\ a < 15) => signalStrength = "fair"
              /\ 15 <= a => signalStrength = "poor"
    /\ LET rank == [t \in {"excellent", "good", "fair", "poor"} |->
                        CASE t = "excellent" -> 0 [] t = "good" -> 1
                          [] t = "fair" -> 2 [] OTHER -> 3]
       IN  \A a, b \in 0..MaxAccuracy :
              a <= b => rank[getSignalStrength(a)] <= rank[getSignalStrength(b)]

C18_Witness ==
    /\ last.op = "watchUpdate"
    /\ position # NoPosition
    /\ position.accuracy = 15
    /\ signalStrength = "poor"

\* C19: reset leaves total 0 and no last point; the first addPoint after it
\* leaves the total at 0, and every later addPoint(P2) adds exactly the
\* distance from the point added before it to P2.
C19_ResetThenAdd ==
    [][/\ Reset => totalDistance' = Num(0) /\ lastPositionRef' = NoPosition
       /\ \A pt \in Points :
            AddPoint(pt) =>
                /\ lastPositionRef' = pt
                /\ lastPositionRef = NoPosition => totalDistance' = Num(0)
                /\ lastPositionRef # NoPosition =>
                      totalDistance' =
                          Plus(totalDistance,
                               calculateDistance(lastPositionRef.latitude,
                                                 lastPositionRef.longitude,
                                                 pt.latitude, pt.longitude))]_vars

C19_Witness ==
    /\ last.op = "addPoint"
    /\ lastPositionRef = [latitude |-> 12, longitude |-> 0]
    /\ totalDistance = calculateDistance(0, 0, 12, 0)
    /\ Geq(totalDistance, Num(1))

\* C20: an addPoint never makes the total smaller, and the total is never
\* below 0.
C20_TotalNeverDecreases ==
    [][(\E pt \in Points : AddPoint(pt))
          => Geq(totalDistance', totalDistance) /\ Geq(totalDistance', Num(0))]_vars

\* C21: calculateDistance is 0 for coincident points and symmetric: for the
\* point A added last and the point B being added, the distance from A to B
\* equals the distance from B to A, and is 0 when B is A.
C21_DistanceSymmetric ==
    [][\A pt \in Points :
          (AddPoint(pt) /\ lastPositionRef # NoPosition) =>
              LET A == lastPositionRef
                  ab == calculateDistance(A.latitude, A.longitude, pt.latitude, pt.longitude)
                  ba == calculateDistance(pt.latitude, pt.longitude, A.latitude, A.longitude)
              IN  /\ Eq(ab, ba)
                  /\ pt = A => Eq(ab, Num(0))]_vars

\* C22: for every bearing in [0, 360) getCompassDirection returns one of the
\* 16 compass points, the one of the 22.5 degree sector centred on it that
\* the bearing lies in (lower edge included); 0 is N, 90 E, 180 S, 270 W,
\* and bearings from 348.75 wrap around to N.
C22_CompassRose ==
    last.op = "compass" =>
        /\ last.ret \in {directions[i] : i \in 1..16}
        /\ \E k \in 0..16 :
              /\ (2 * k - 1) * 1125 <= bearing
              /\ bearing < (2 * k + 1) * 1125
              /\ last.ret = directions[(k % 16) + 1]
        /\ bearing = 0 => last.ret = "N"
        /\ bearing = 9000 => last.ret = "E"
        /\ bearing = 18000 => last.ret = "S"
        /\ bearing = 27000 => last.ret = "W"
        /\ bearing >= 34875 => last.ret = "N"
        /\ bearing = 34874 => last.ret = "NNW"

C22_Witness ==
    /\ last.op = "compass"
    /\ bearing = 34875
    /\ last.ret = "N"

\* C23: addPoint always stores the new point, whether or not it added a
\* distance, so an addPoint that follows an addPoint adds the distance from
\* that preceding point, and the first addPoint after a reset adds nothing.
C23_PreviousPointReplaced ==
    [][\A pt \in Points :
          AddPoint(pt) =>
              /\ lastPositionRef' = pt
              /\ last.op = "addPoint" =>
                    totalDistance' =
                        Plus(totalDistance,
                             calculateDistance(last.ret.latitude, last.ret.longitude,
                                               pt.latitude, pt.longitude))
              /\ last.op # "addPoint" => totalDistance' = totalDistance]_vars

C23_Witness ==
    /\ last.op = "addPoint"
    /\ last.ret = [latitude |-> -12, longitude |-> 0]
    /\ lastPositionRef = last.ret
    /\ totalDistance = Plus(calculateDistance(0, 0, 12, 0), calculateDistance(12, 0, -12, 0))

\* C24: the step in which a startTracking call gets its permission creates a
\* fallback timer if and only if enableBackgroundTracking is set and
\* watchInterval is positive; with background tracking off or a non-positive
\* interval there is no fallback timer in any reachable state.
C24_TimerIffConfigured ==
    /\ []((~enableBackgroundTracking \/ watchInterval <= 0)
            => intervals = {} /\ intervalIdRef = NoHandle)
    /\ [][\A t \in Pending :
            (t.fn = "startTracking" /\ PermissionGrantedStep(t))
            => /\ watchIdRef' \in watches' \ watches
               /\ (enableBackgroundTracking /\ watchInterval > 0)
                    <=> (intervals' \ intervals # {} /\ intervalIdRef' \in intervals' \ intervals)]_vars

C24_Witness ==
    /\ last.fn = "startTracking"
    /\ last.ret = "void"
    /\ isTracking
    /\ watches # {}
    /\ enableBackgroundTracking
    /\ watchInterval = 0
    /\ intervals = {}

\* C25: whenever the session of a mounted instance is not Active (isTracking
\* is false) the instance holds no live watch subscription and no scheduled
\* fallback timer; in particular both handles are released when a platform
\* error moves the session from Active to Error.
C25_NoHandlesUnlessActive ==
    (mounted /\ ~isTracking)
        => /\ watchIdRef = NoHandle
           /\ intervalIdRef = NoHandle
           /\ watches = {}
           /\ intervals = {}

\* C26: a stopTracking call or a teardown that happens while a startTracking
\* call is waiting for the permission result prevents that call from creating
\* a watch subscription or a fallback timer: when the pending call then
\* completes, the session is Idle and no handle is held.
C26_StopCancelsPendingStart ==
    [][\A t \in Pending :
          (t.fn = "startTracking" /\ last.op \in {"stop", "unmount"} /\ Steps(t))
          => /\ watches' = {}
             /\ intervals' = {}
             /\ watchIdRef' = NoHandle
             /\ intervalIdRef' = NoHandle
             /\ ~isTracking']_vars

\* C27: a change of the tracked permission state that is not a denial,
\* occurring while the session is Active, does not stop tracking: when React
\* reacts to the change, the watch subscription and the fallback timer stay
\* in place and isTracking stays true.  (Under FairSpec the effect of every
\* earlier change has run before the permission changes.)
C27_NonDenialKeepsTracking ==
    [][(/\ last.op = "permissionChange"
        /\ last.was = "Active"
        /\ isTracking
        /\ permissionStatus # "denied"
        /\ RunEffect)
          => /\ isTracking'
             /\ watches' = watches
             /\ intervals' = intervals
             /\ watchIdRef' = watchIdRef
             /\ intervalIdRef' = intervalIdRef]_vars

\* C28: a position-unavailable or timeout failure, reported to the watch, to
\* a single-shot fetch or to a permission request, never changes the tracked
\* permission state to 'denied'; the state becomes 'denied' only by a
\* permission-denied failure, by a platform permission state of denied, or
\* by the absence of a provider.
C28_DeniedOnlyByDenial ==
    [][/\ (\E e \in {ErrUnavailable, ErrTimeout} :
              \/ \E w \in watches : WatchFails(w, e)
              \/ \E t \in Pending : FetchFails(t, e))
            => (permissionStatus' = "denied" => permissionStatus = "denied")
       /\ (permissionStatus # "denied" /\ permissionStatus' = "denied")
            => \/ \E w \in watches : WatchFails(w, ErrDenied)
               \/ \E t \in Pending : FetchFails(t, ErrDenied)
               \/ permissionState' = "denied"
               \/ ~geolocation]_vars

\* C29: normalizing a platform sample preserves every value the platform
\* supplied: latitude, longitude, accuracy and timestamp are copied, and an
\* optional field (altitude, altitudeAccuracy, heading, speed) is undefined
\* in the position only when the platform did not supply it, so a supplied 0
\* stays 0.
C29_SampleKept ==
    [][\A p \in Fixes :
          PositionUpdate(p)
          => /\ position'.latitude = p.latitude
             /\ position'.longitude = p.longitude
             /\ position'.accuracy = p.accuracy
             /\ position'.timestamp = p.timestamp
             /\ position'.altitude = p.altitude
             /\ position'.altitudeAccuracy = p.altitudeAccuracy
             /\ position'.heading = p.heading
             /\ position'.speed = p.speed]_vars

\* C30: in every reachable state the two permission variables agree:
\* permissionGranted is true if and only if permissionStatus is 'granted',
\* and permissionStatus 'denied' implies permissionGranted is false.
C30_PermissionVariablesAgree ==
    /\ permissionGranted = "true" <=> permissionStatus = "granted"
    /\ permissionStatus = "denied" => permissionGranted = "false"

C30_Witness ==
    /\ last.op = "permissionChange"
    /\ listening
    /\ mounted
    /\ permissionStatus = "denied"
    /\ permissionGranted = "false"

=============================================================================
